---- MODULE Spec2Model ----
(***************************************************************************)
(* Model of producthunt_intel.py: the retry wrapper call_claude_with_retry, *)
(* the conversation driver run_analysis, the output extraction             *)
(* (clean_spec_content, extract_product_info) and the orchestrator main    *)
(* with its publish (upload_to_drive) and notify (send_slack_notification) *)
(* collaborators.                                                          *)
(*                                                                         *)
(* Strings are sequences of tokens.  A token is one character or one word: *)
(*   "#"  " "  "\n"  "-"  "a"      ordinary characters                     *)
(*   "P"  "S"  "s"  "U"            the words Product, Specification,       *)
(*                                 specification (lower case), Unknown     *)
(*   "**P"  "N"  "L"  "HTTP"       the pieces **Product, Name:** and       *)
(*                                 URL:** of the two field labels (a label *)
(*                                 is piece, space, piece) and http(s)://  *)
(***************************************************************************)
EXTENDS Integers, Sequences, FiniteSets

VARIABLES
    pc,             \* position of main / run_analysis / call_claude_with_retry
    messages,       \* run_analysis: the transcript sent to the provider
    response,       \* run_analysis: the response of the last exchange
    attempt,        \* call_claude_with_retry: the loop variable
    apiLog,         \* outcomes of client.messages.create in the current exchange
    sleeps,         \* durations passed to time.sleep in the current exchange
    exchanges,      \* number of calls of call_claude_with_retry in this run
    totalWait,      \* sum of all durations slept in this run
    calls,          \* number of calls of client.messages.create in this run
    analysis,       \* the tuple returned by run_analysis, raw_content included
    uploads,        \* arguments and outcome of every call of upload_to_drive
    doc_url,        \* main: the locator returned by upload_to_drive
    notifications,  \* arguments and outcome of every send_slack_notification
    err,            \* the exception caught by main's except clause
    raised          \* the exception that left main

vars == <<pc, messages, response, attempt, apiLog, sleeps, exchanges,
          totalWait, calls, analysis, uploads, doc_url, notifications, err,
          raised>>

(***************************************************************************)
(* Bounds of the model.                                                    *)
(***************************************************************************)
MaxRounds == 2      \* tool rounds explored per run (the code has no limit)

(***************************************************************************)
(* Program constants.                                                      *)
(***************************************************************************)
MAX_RETRIES == 5
INITIAL_RETRY_DELAY == 60
ERROR_CAP == 500

None == [type |-> "None"]

(***************************************************************************)
(* Helpers on strings.                                                     *)
(***************************************************************************)
Min(a, b) == IF a <= b THEN a ELSE b

\* Python's s[:n]
Prefix(s, n) == SubSeq(s, 1, Min(n, Len(s)))

\* Python's s[i:] for a 1-based position i
Suffix(s, i) == SubSeq(s, i, Len(s))

RECURSIVE Pow2(_)
Pow2(n) == IF n = 0 THEN 1 ELSE 2 * Pow2(n - 1)

\* An exception message of n characters; the characters differ by position.
Msg(n) == [i \in 1..n |-> i % 10]


MinSet(S) == CHOOSE x \in S : \A y \in S : x <= y
MaxSet(S) == CHOOSE x \in S : \A y \in S : x >= y

(***************************************************************************)
(* Regular-expression primitives over token strings (module re).           *)
(***************************************************************************)
\* \s : white space, the line break included
IsSpace(c) == c \in {" ", "\n"}

\* . : any character but the line break
IsDot(c) == c # "\n"

\* ^ under re.MULTILINE: the start of the string or just after a line break
AtLineStart(s, i) == i = 1 \/ s[i - 1] = "\n"

AllSpace(s, a, b) == \A k \in a..b : IsSpace(s[k])

AllDot(s, a, b) == \A k \in a..b : IsDot(s[k])

\* the literal lit stands at position i of s
HasAt(s, i, lit) ==
    /\ i >= 1
    /\ i + Len(lit) - 1 <= Len(s)
    /\ SubSeq(s, i, i + Len(lit) - 1) = lit

\* re.IGNORECASE: the alphabet has one word in two cases
Fold(c) == IF c = "S" THEN "s" ELSE c

HasAtIgnoreCase(s, i, lit) ==
    /\ i >= 1
    /\ i + Len(lit) - 1 <= Len(s)
    /\ \A k \in 1..Len(lit) : Fold(s[i + k - 1]) = Fold(lit[k])

\* str.strip()
RECURSIVE LStrip(_)
LStrip(s) == IF s # <<>> /\ IsSpace(Head(s)) THEN LStrip(Tail(s)) ELSE s

RECURSIVE RStrip(_)
RStrip(s) ==
    IF s # <<>> /\ IsSpace(s[Len(s)]) THEN RStrip(SubSeq(s, 1, Len(s) - 1)) ELSE s

Strip(s) == RStrip(LStrip(s))

\* the last position of the line that holds position a
EndOfLine(s, a) ==
    MinSet({k \in a..Len(s) : k = Len(s) \/ s[k + 1] = "\n"})

NoMatch == [found |-> FALSE, start |-> 0, group |-> <<>>]

\* <prefix at i>\s{minW,}(.+?)(?:\n|$) : greedy white space, then the lazy
\* group, which runs to the end of its line.  The white space gives back
\* characters until the group can start on a character that "." matches.
LineGroup(s, i, minW) ==
    LET ws == {w \in minW..(Len(s) - i) :
                  /\ AllSpace(s, i + 1, i + w)
                  /\ i + 1 + w <= Len(s)
                  /\ IsDot(s[i + 1 + w])}
    IN  IF ws = {} THEN NoMatch
        ELSE LET a == i + 1 + MaxSet(ws)
             IN  [found |-> TRUE, start |-> i,
                  group |-> SubSeq(s, a, EndOfLine(s, a))]

ProductSpecification == <<"P", " ", "S">>
UnknownProduct == <<"U", " ", "P">>
ProductNameLabel == <<"**P", " ", "N">>
ProductUrlLabel == <<"**P", " ", "L">>

\* \s*-\s*Product Specification matches at position p
SuffixAt(s, p) ==
    \E t \in 0..Len(s) :
        /\ p + t <= Len(s)
        /\ AllSpace(s, p, p + t - 1)
        /\ s[p + t] = "-"
        /\ \E u \in 0..Len(s) :
              /\ p + t + u <= Len(s)
              /\ AllSpace(s, p + t + 1, p + t + u)
              /\ HasAt(s, p + t + u + 1, ProductSpecification)

\* r'^#\s+(.+?)\s*-\s*Product Specification' at position i: the pairs
\* <<w, g>> of white-space length and group length that match
TitleChoices(s, i) ==
    IF ~(AtLineStart(s, i) /\ s[i] = "#") THEN {}
    ELSE {c \in (1..Len(s)) \X (1..Len(s)) :
             /\ i + c[1] + c[2] <= Len(s)
             /\ AllSpace(s, i + 1, i + c[1])
             /\ AllDot(s, i + c[1] + 1, i + c[1] + c[2])
             /\ SuffixAt(s, i + c[1] + c[2] + 1)}

\* re.search(r'^#\s+(.+?)\s*-\s*Product Specification', s, re.MULTILINE):
\* leftmost start, white space greedy, group lazy
TitleSearch(s) ==
    LET starts == {i \in 1..Len(s) : TitleChoices(s, i) # {}}
    IN  IF starts = {} THEN NoMatch
        ELSE LET i == MinSet(starts)
                 w == MaxSet({c[1] : c \in TitleChoices(s, i)})
                 g == MinSet({c[2] : c \in {d \in TitleChoices(s, i) : d[1] = w}})
             IN  [found |-> TRUE, start |-> i,
                  group |-> SubSeq(s, i + w + 1, i + w + g)]

\* re.search(r'\*\*Product Name:\*\*\s*(.+?)(?:\n|$)', s)
NameSearch(s) ==
    LET starts == {i \in 1..Len(s) :
                      /\ HasAt(s, i, ProductNameLabel)
                      /\ LineGroup(s, i + 2, 0).found}
    IN  IF starts = {} THEN NoMatch ELSE LineGroup(s, MinSet(starts) + 2, 0)

\* re.search(r'^#\s+(.+?)(?:\n|$)', s, re.MULTILINE)
H1Search(s) ==
    LET starts == {i \in 1..Len(s) :
                      AtLineStart(s, i) /\ s[i] = "#" /\ LineGroup(s, i, 1).found}
    IN  IF starts = {} THEN NoMatch ELSE LineGroup(s, MinSet(starts), 1)

\* re.sub(r'\s*-\s*Product Specification.*$', '', name)
StripSuffix(name) ==
    LET ps == {p \in 1..Len(name) : SuffixAt(name, p)}
    IN  IF ps = {} THEN name ELSE SubSeq(name, 1, MinSet(ps) - 1)

\* re.search(r'\*\*Product URL:\*\*\s*(https?://[^\s\n]+)', s)
UrlSearch(s) ==
    LET at(i) == {w \in 0..(Len(s) - i) :
                     /\ AllSpace(s, i + 1, i + w)
                     /\ i + w + 2 <= Len(s)
                     /\ s[i + w + 1] = "HTTP"
                     /\ ~IsSpace(s[i + w + 2])}
        starts == {i \in 1..Len(s) :
                      HasAt(s, i, ProductUrlLabel) /\ at(i + 2) # {}}
    IN  IF starts = {} THEN NoMatch
        ELSE LET i == MinSet(starts) + 2
                 a == i + MaxSet(at(i)) + 1
                 e == MaxSet({k \in a..Len(s) : \A j \in a..k : ~IsSpace(s[j])})
             IN  [found |-> TRUE, start |-> i, group |-> SubSeq(s, a, e)]

(***************************************************************************)
(* extract_product_info: returns <<product_name, product_url>>.            *)
(***************************************************************************)
extract_product_info(spec_content) ==
    LET n1 == IF TitleSearch(spec_content).found
              THEN Strip(TitleSearch(spec_content).group)
              ELSE UnknownProduct
        n2 == IF n1 = UnknownProduct /\ NameSearch(spec_content).found
              THEN Strip(NameSearch(spec_content).group)
              ELSE n1
        n3 == IF n2 = UnknownProduct /\ H1Search(spec_content).found
              THEN StripSuffix(Strip(H1Search(spec_content).group))
              ELSE n2
        url == IF UrlSearch(spec_content).found
               THEN Strip(UrlSearch(spec_content).group)
               ELSE <<>>
    IN  <<n3, url>>

(***************************************************************************)
(* clean_spec_content.                                                     *)
(***************************************************************************)
\* r'^#\s+.+?(?:Product Specification|Specification)' matches at i, under
\* re.MULTILINE | re.IGNORECASE
SpecHeadingAt(s, i) ==
    /\ AtLineStart(s, i)
    /\ s[i] = "#"
    /\ \E j \in (i + 1)..Len(s) :
          /\ AllSpace(s, i + 1, j)
          /\ \E k \in (j + 1)..Len(s) :
                /\ AllDot(s, j + 1, k)
                /\ \/ HasAtIgnoreCase(s, k + 1, ProductSpecification)
                   \/ HasAtIgnoreCase(s, k + 1, <<"S">>)

\* r'^#\s+' matches at i, under re.MULTILINE
H1At(s, i) == AtLineStart(s, i) /\ s[i] = "#" /\ i + 1 <= Len(s) /\ IsSpace(s[i + 1])

\* the text without a heading is returned stripped: content.strip()
clean_spec_content_stripped(content) ==
    LET spec_start == {i \in 1..Len(content) : SpecHeadingAt(content, i)}
        h1_match == {i \in 1..Len(content) : H1At(content, i)}
    IN  IF spec_start # {} THEN Suffix(content, MinSet(spec_start))
        ELSE IF h1_match # {} THEN Suffix(content, MinSet(h1_match))
        ELSE Strip(content)

clean_spec_content(content) ==
    LET spec_start == {i \in 1..Len(content) : SpecHeadingAt(content, i)}
        h1_match == {i \in 1..Len(content) : H1At(content, i)}
    IN  IF spec_start # {} THEN Suffix(content, MinSet(spec_start))
        ELSE IF h1_match # {} THEN Suffix(content, MinSet(h1_match))
        ELSE content


(***************************************************************************)
(* The model provider's answers.  A response carries a stop_reason and a   *)
(* list of content blocks; a text block has a text attribute, a tool_use   *)
(* block has an id and no text attribute.                                  *)
(***************************************************************************)
Text(s) == [type |-> "text", text |-> s]
ToolUse(i) == [type |-> "tool_use", id |-> i]

Preamble == <<"a", " ", "a", "\n">>
SpecText ==
    <<"#", " ", "a", " ", "-", " ", "P", " ", "S", "\n",
      "**P", " ", "L", " ", "HTTP", "a", "\n", "a">>
Prose == <<"a", " ", "a">>

Contents ==
    { <<Text(<<"a">>), ToolUse("t1")>>,
      <<ToolUse("t1"), Text(<<"a", "a">>), ToolUse("t2")>>,
      <<Text(Preamble), Text(SpecText)>>,
      <<Text(Prose)>>,
      <<>> }

\* what a response cut short by max_tokens may hold
TruncatedContents ==
    { <<Text(<<"a">>), ToolUse("t1")>>,
      <<Text(Preamble), Text(SpecText)>> }

HasToolUse(content) == \E k \in 1..Len(content) : content[k].type = "tool_use"

\* The provider's contract: stop_reason "tool_use" comes with at least one
\* tool_use block, "end_turn" with none; "max_tokens" cuts any response short.
Responses ==
    {r \in [stop_reason : {"tool_use", "end_turn", "max_tokens"}, content : Contents] :
        /\ r.stop_reason = "tool_use" => HasToolUse(r.content)
        /\ r.stop_reason = "end_turn" => ~HasToolUse(r.content)
        /\ r.stop_reason = "max_tokens" => r.content \in TruncatedContents}

(***************************************************************************)
(* Exceptions: a type and the text str(e) gives.                           *)
(***************************************************************************)
Exc(t, n) == [type |-> t, msg |-> Msg(n)]

RateLimitErrors == {Exc("RateLimitError", 4)}
ProviderErrors == {Exc("APIStatusError", 7), Exc("APIConnectionError", 501)}
PublishErrors == {Exc("HttpError", 600), Exc("TimeoutError", 0)}
NotifyErrors == {Exc("ConnectionError", 9)}
MaxRetriesExceeded == Exc("Exception", 20)

Ok == [type |-> "ok"]
Locators == {<<"HTTP", "a">>}

(***************************************************************************)
(* call_claude_with_retry                                                  *)
(***************************************************************************)
\* a linear backoff in place of the exponential one
Delay_linear(n) == INITIAL_RETRY_DELAY * (n + 1)

\* delay = INITIAL_RETRY_DELAY * (2 ** attempt)
Delay(n) == INITIAL_RETRY_DELAY * Pow2(n)

\* the final attempt taken one iteration early
IsFinalAttempt_early(n) == n = MAX_RETRIES - 2

\* the final attempt looked for one iteration late: attempt == MAX_RETRIES
IsFinalAttempt_late(n) == n = MAX_RETRIES

\* if attempt == MAX_RETRIES - 1: raise
IsFinalAttempt(n) == n = MAX_RETRIES - 1

\* for attempt in range(MAX_RETRIES): there is a next iteration after n
HasNextAttempt(n) == n + 1 < MAX_RETRIES

\* the attempt counter kept from one call of the wrapper to the next
EnterRetry_shared ==
    /\ attempt' = attempt
    /\ apiLog' = <<>>
    /\ sleeps' = <<>>
    /\ exchanges' = exchanges + 1
    /\ pc' = "call"

\* run_analysis calls call_claude_with_retry(messages, SYSTEM_PROMPT)
EnterRetry ==
    /\ attempt' = 0
    /\ apiLog' = <<>>
    /\ sleeps' = <<>>
    /\ exchanges' = exchanges + 1
    /\ pc' = "call"

\* client.messages.create returns r; the wrapper returns it at once
CreateReturns(r) ==
    /\ pc = "call"
    /\ apiLog' = Append(apiLog, [type |-> "ok", response |-> r])
    /\ response' = r
    /\ pc' = "returned"
    /\ UNCHANGED <<messages, attempt, sleeps, exchanges, totalWait, analysis,
                   uploads, doc_url, notifications, err, raised>>
    /\ calls' = calls + 1

\* client.messages.create raises anthropic.RateLimitError
CreateRateLimited(e) ==
    /\ pc = "call"
    /\ apiLog' = Append(apiLog, e)
    /\ IF IsFinalAttempt(attempt)
       THEN /\ err' = e
            /\ pc' = "except"
            /\ UNCHANGED <<attempt, sleeps, totalWait>>
       ELSE /\ sleeps' = Append(sleeps, Delay(attempt))
            /\ totalWait' = totalWait + Delay(attempt)
            /\ IF HasNextAttempt(attempt)
               THEN /\ attempt' = attempt + 1
                    /\ UNCHANGED <<pc, err>>
               ELSE /\ err' = MaxRetriesExceeded
                    /\ pc' = "except"
                    /\ UNCHANGED attempt
    /\ UNCHANGED <<messages, response, exchanges, analysis, uploads, doc_url,
                   notifications, raised>>
    /\ calls' = calls + 1

\* "except Exception" in place of "except anthropic.RateLimitError"
CreateFails_retried(e) == CreateRateLimited(e)

\* local recovery: the failure is taken as an empty final response
CreateFails_recovered(e) ==
    /\ pc = "call"
    /\ apiLog' = Append(apiLog, e)
    /\ response' = [stop_reason |-> "end_turn", content |-> <<>>]
    /\ pc' = "returned"
    /\ UNCHANGED <<messages, attempt, sleeps, exchanges, totalWait, analysis,
                   uploads, doc_url, notifications, err, raised>>
    /\ calls' = calls + 1

\* client.messages.create raises anything else: no except clause takes it
CreateFails(e) ==
    /\ pc = "call"
    /\ apiLog' = Append(apiLog, e)
    /\ err' = e
    /\ pc' = "except"
    /\ UNCHANGED <<messages, response, attempt, sleeps, exchanges, totalWait,
                   analysis, uploads, doc_url, notifications, raised>>
    /\ calls' = calls + 1

(***************************************************************************)
(* run_analysis                                                            *)
(***************************************************************************)
Prompt == <<"PROMPT">>

\* a result for the first tool_use block only
ToolResults_firstOnly(content) ==
    LET uses == SelectSeq(content, LAMBDA b : b.type = "tool_use")
    IN  IF uses = <<>> THEN <<>>
        ELSE <<[type |-> "tool_result", tool_use_id |-> Head(uses).id,
                content |-> "Search completed"]>>

\* the tool_result blocks built for the tool_use blocks of content
RECURSIVE ToolResults(_)
ToolResults(content) ==
    IF content = <<>> THEN <<>>
    ELSE IF Head(content).type = "tool_use"
         THEN <<[type |-> "tool_result", tool_use_id |-> Head(content).id,
                 content |-> "Search completed"]>> \o ToolResults(Tail(content))
         ELSE ToolResults(Tail(content))

\* "".join(block.text for block in response.content if hasattr(block, "text"))
RECURSIVE JoinText(_)
JoinText(content) ==
    IF content = <<>> THEN <<>>
    ELSE IF "text" \in DOMAIN Head(content)
         THEN Head(content).text \o JoinText(Tail(content))
         ELSE JoinText(Tail(content))

\* the text of every responder turn so far, not only of the last response
RawContent_allTurns(resp) ==
    LET turns == SelectSeq(messages, LAMBDA t : t.role = "assistant")
        RECURSIVE all(_)
        all(ts) == IF ts = <<>> THEN <<>>
                   ELSE JoinText(Head(ts).content) \o all(Tail(ts))
    IN  all(turns) \o JoinText(resp.content)

RawContent(resp) == JoinText(resp.content)

\* while response.stop_reason == "tool_use"
LoopsOn(resp) == resp.stop_reason = "tool_use"

\* main calls run_analysis: the transcript is built and the first exchange starts
StartAnalysis ==
    /\ pc = "start"
    /\ messages' = <<[role |-> "user", content |-> Prompt]>>
    /\ EnterRetry
    /\ UNCHANGED <<response, totalWait, analysis, uploads, doc_url,
                   notifications, err, raised>>
    /\ UNCHANGED calls

\* the pass without line 221: the tool results are never appended
ToolRound_noResults ==
    /\ pc = "returned"
    /\ LoopsOn(response)
    /\ exchanges <= MaxRounds
    /\ messages' = Append(messages,
                          [role |-> "assistant", content |-> response.content])
    /\ EnterRetry
    /\ UNCHANGED <<response, totalWait, analysis, uploads, doc_url,
                   notifications, err, raised>>
    /\ UNCHANGED calls

\* one pass of the while loop, up to the next call of the wrapper
ToolRound ==
    /\ pc = "returned"
    /\ LoopsOn(response)
    /\ exchanges <= MaxRounds
    /\ messages' = messages \o
           << [role |-> "assistant", content |-> response.content],
              [role |-> "user", content |-> ToolResults(response.content)] >>
    /\ EnterRetry
    /\ UNCHANGED <<response, totalWait, analysis, uploads, doc_url,
                   notifications, err, raised>>
    /\ UNCHANGED calls

\* the final response is appended to the transcript before the return
Finish_appended ==
    /\ pc = "returned"
    /\ ~LoopsOn(response)
    /\ messages' = Append(messages,
                          [role |-> "assistant", content |-> response.content])
    /\ LET raw_content == RawContent(response)
           spec_content == clean_spec_content(raw_content)
           info == extract_product_info(spec_content)
       IN  analysis' = [type |-> "analysis",
                        raw_content |-> raw_content,
                        product_name |-> info[1],
                        spec_content |-> spec_content,
                        product_url |-> info[2]]
    /\ pc' = "upload"
    /\ UNCHANGED <<response, attempt, apiLog, sleeps, exchanges,
                   totalWait, uploads, doc_url, notifications, err, raised>>
    /\ UNCHANGED calls

\* the loop ends: collect the text, clean it, extract, return
Finish ==
    /\ pc = "returned"
    /\ ~LoopsOn(response)
    /\ LET raw_content == RawContent(response)
           spec_content == clean_spec_content(raw_content)
           info == extract_product_info(spec_content)
       IN  analysis' = [type |-> "analysis",
                        raw_content |-> raw_content,
                        product_name |-> info[1],
                        spec_content |-> spec_content,
                        product_url |-> info[2]]
    /\ pc' = "upload"
    /\ UNCHANGED <<messages, response, attempt, apiLog, sleeps, exchanges,
                   totalWait, uploads, doc_url, notifications, err, raised>>
    /\ UNCHANGED calls


(***************************************************************************)
(* upload_to_drive                                                         *)
(***************************************************************************)
\* the call returns the document's link
UploadReturns(url) ==
    /\ pc = "upload"
    /\ uploads' = Append(uploads, [product_name |-> analysis.product_name,
                                   spec_content |-> analysis.spec_content,
                                   outcome |-> [type |-> "ok", locator |-> url]])
    /\ doc_url' = url
    /\ pc' = "notify"
    /\ UNCHANGED <<messages, response, attempt, apiLog, sleeps, exchanges,
                   totalWait, analysis, notifications, err, raised>>
    /\ UNCHANGED calls

\* the call raises: main's except clause takes the exception
UploadFails(e) ==
    /\ pc = "upload"
    /\ uploads' = Append(uploads, [product_name |-> analysis.product_name,
                                   spec_content |-> analysis.spec_content,
                                   outcome |-> e])
    /\ err' = e
    /\ pc' = "except"
    /\ UNCHANGED <<messages, response, attempt, apiLog, sleeps, exchanges,
                   totalWait, analysis, doc_url, notifications, raised>>
    /\ UNCHANGED calls

(***************************************************************************)
(* send_slack_notification                                                 *)
(***************************************************************************)
\* error_message[:500]
Truncate(error_message) == Prefix(error_message, ERROR_CAP)

\* the payload posted to the webhook; a part a payload does not hold is <<>>
Payload(success, product_name, url, product_url, error_message) ==
    IF success
    THEN [success |-> TRUE, product_name |-> product_name, doc_url |-> url,
          product_url |-> product_url, error |-> <<>>]
    ELSE [success |-> FALSE, product_name |-> <<>>, doc_url |-> <<>>,
          product_url |-> <<>>, error |-> Truncate(error_message)]

\* the failure of the post is let through
NotifyOutcome_raised(p) == p

\* what leaves send_slack_notification when requests.post(...).raise_for_status()
\* ends as p: "except Exception" takes every failure
NotifyOutcome(p) == Ok

\* str(e)
Str(e) == e.msg

(***************************************************************************)
(* main                                                                    *)
(***************************************************************************)
\* send_slack_notification(True, product_name, doc_url, product_url)
NotifySuccess(p) ==
    /\ pc = "notify"
    /\ notifications' = Append(notifications,
           [payload |-> Payload(TRUE, analysis.product_name, doc_url,
                                analysis.product_url, <<>>),
            post |-> p])
    /\ IF NotifyOutcome(p) = Ok
       THEN /\ pc' = "done"
            /\ UNCHANGED err
       ELSE /\ pc' = "except"
            /\ err' = NotifyOutcome(p)
    /\ UNCHANGED <<messages, response, attempt, apiLog, sleeps, exchanges,
                   totalWait, analysis, uploads, doc_url, raised>>
    /\ UNCHANGED calls

\* the except clause re-raises without the failure notification
NotifyFailure_skipped(p) ==
    /\ pc = "except"
    /\ pc' = "reraise"
    /\ UNCHANGED <<messages, response, attempt, apiLog, sleeps, exchanges,
                   totalWait, calls, analysis, uploads, doc_url,
                   notifications, err, raised>>

\* except Exception as e: send_slack_notification(False, error_message=str(e))
NotifyFailure(p) ==
    /\ pc = "except"
    /\ notifications' = Append(notifications,
           [payload |-> Payload(FALSE, <<>>, <<>>, <<>>, Str(err)),
            post |-> p])
    /\ IF NotifyOutcome(p) = Ok
       THEN /\ pc' = "reraise"
            /\ UNCHANGED raised
       ELSE /\ pc' = "exit_error"
            /\ raised' = NotifyOutcome(p)
    /\ UNCHANGED <<messages, response, attempt, apiLog, sleeps, exchanges,
                   totalWait, analysis, uploads, doc_url, err>>
    /\ UNCHANGED calls

\* the except clause ends without "raise": the process exits without error
Reraise_swallowed ==
    /\ pc = "reraise"
    /\ pc' = "done"
    /\ UNCHANGED <<messages, response, attempt, apiLog, sleeps, exchanges,
                   totalWait, analysis, uploads, doc_url, notifications, err,
                   raised>>
    /\ UNCHANGED calls

\* raise
Reraise ==
    /\ pc = "reraise"
    /\ raised' = err
    /\ pc' = "exit_error"
    /\ UNCHANGED <<messages, response, attempt, apiLog, sleeps, exchanges,
                   totalWait, analysis, uploads, doc_url, notifications, err>>
    /\ UNCHANGED calls

(***************************************************************************)
(* The specification.                                                      *)
(***************************************************************************)
Init ==
    /\ pc = "start"
    /\ messages = <<>>
    /\ response = None
    /\ attempt = 0
    /\ apiLog = <<>>
    /\ sleeps = <<>>
    /\ exchanges = 0
    /\ totalWait = 0
    /\ calls = 0
    /\ analysis = None
    /\ uploads = <<>>
    /\ doc_url = None
    /\ notifications = <<>>
    /\ err = None
    /\ raised = None

Next ==
    \/ StartAnalysis
    \/ \E r \in Responses : CreateReturns(r)
    \/ \E e \in RateLimitErrors : CreateRateLimited(e)
    \/ \E e \in ProviderErrors : CreateFails(e)
    \/ ToolRound
    \/ Finish
    \/ \E url \in Locators : UploadReturns(url)
    \/ \E e \in PublishErrors : UploadFails(e)
    \/ \E p \in {Ok} \cup NotifyErrors : NotifySuccess(p)
    \/ \E p \in {Ok} \cup NotifyErrors : NotifyFailure(p)
    \/ Reraise

Spec == Init /\ [][Next]_vars

(***************************************************************************)
(* The extraction on its own.  The first exchange has returned a final     *)
(* response of one text block; the text is any of the bounded strings      *)
(* below.  Finish cleans it and extracts the metadata from it.             *)
(***************************************************************************)
MaxLen == 3         \* free token strings of up to this many tokens
MaxBlocks == 2      \* documents of up to this many of the blocks below

Alphabet ==
    {"#", " ", "\n", "-", "a", "P", "S", "s", "U", "**P", "N", "L", "HTTP"}

ShortStrings == UNION {[1..n -> Alphabet] : n \in 0..MaxLen}

Blocks ==
    { <<"#", " ", "a", " ", "-", " ", "P", " ", "S", "\n">>,
      <<"#", " ", "U", " ", "P", " ", "-", " ", "P", " ", "S", "\n">>,
      <<"#", " ", "a", "\n">>,
      <<"#", "\n", "a", " ", "s", "\n">>,
      <<"**P", " ", "N", " ", "a", "\n">>,
      <<"**P", " ", "N", " ", "U", " ", "P", "\n">>,
      <<"**P", " ", "L", " ", "HTTP", "a", "\n">>,
      <<"a", " ", "a", "\n">> }

RECURSIVE Documents(_)
Documents(n) ==
    IF n = 0 THEN {<<>>}
    ELSE Documents(n - 1) \cup {d \o b : d \in Documents(n - 1), b \in Blocks}

Inputs == ShortStrings \cup Documents(MaxBlocks)

FinalText(x) == [stop_reason |-> "end_turn", content |-> <<Text(x)>>]

ExtractInit ==
    /\ pc = "returned"
    /\ messages = <<[role |-> "user", content |-> Prompt]>>
    /\ response \in {FinalText(x) : x \in Inputs}
    /\ attempt = 0
    /\ apiLog = <<[type |-> "ok", response |-> response]>>
    /\ sleeps = <<>>
    /\ exchanges = 1
    /\ totalWait = 0
    /\ calls = 1
    /\ analysis = None
    /\ uploads = <<>>
    /\ doc_url = None
    /\ notifications = <<>>
    /\ err = None
    /\ raised = None

ExtractNext == Finish

ExtractSpec == ExtractInit /\ [][ExtractNext]_vars


(***************************************************************************)
(* Vocabulary of the claims.                                               *)
(***************************************************************************)
Last(s) == s[Len(s)]

RECURSIVE SumSeq(_)
SumSeq(s) == IF s = <<>> THEN 0 ELSE Head(s) + SumSeq(Tail(s))

IsRateLimit(x) == x.type = "RateLimitError"
IsOk(x) == x.type = "ok"

\* main has caught an exception, or has let it go
Failing == pc \in {"except", "reraise", "exit_error"}

\* the last call of call_claude_with_retry ended by raising
WrapperRaised == Failing /\ apiLog # <<>> /\ ~IsOk(Last(apiLog))

(***************************************************************************)
(* C1: with maxAttempts = 5, k rate-limit failures (0 <= k < 5) followed   *)
(* by a success make the wrapper return that success after exactly k       *)
(* waits and k+1 calls; rate-limit failures on every call make it raise    *)
(* after exactly 4 waits and exactly 5 calls; there is never a 6th call.   *)
(***************************************************************************)
C1_RetryCounts ==
    /\ Len(apiLog) <= 5
    /\ pc = "call" =>
          /\ Len(apiLog) < 5
          /\ \A i \in 1..Len(apiLog) : IsRateLimit(apiLog[i])
          /\ Len(sleeps) = Len(apiLog)
    /\ pc = "returned" =>
          /\ apiLog # <<>>
          /\ \A i \in 1..(Len(apiLog) - 1) : IsRateLimit(apiLog[i])
          /\ IsOk(Last(apiLog))
          /\ response = Last(apiLog).response
          /\ Len(sleeps) = Len(apiLog) - 1
    /\ (WrapperRaised /\ \A i \in 1..Len(apiLog) : IsRateLimit(apiLog[i])) =>
          /\ Len(apiLog) = 5
          /\ Len(sleeps) = 4
          /\ IsRateLimit(err)

\* the success comes on the last attempt the wrapper has: k = 4
C1_Witness ==
    /\ pc = "returned"
    /\ Len(apiLog) = 5
    /\ Len(sleeps) = 4
    /\ IsOk(Last(apiLog))

(***************************************************************************)
(* C2: a failure that is not a rate-limit error leaves the wrapper at      *)
(* once, at whatever attempt it occurs: no wait is made for it, no call    *)
(* follows it, and the error that leaves is that failure.                  *)
(***************************************************************************)
C2_FatalPropagates ==
    /\ \A i \in 1..(Len(apiLog) - 1) : IsRateLimit(apiLog[i])
    /\ (apiLog # <<>> /\ ~IsOk(Last(apiLog)) /\ ~IsRateLimit(Last(apiLog))) =>
          /\ Failing
          /\ err = Last(apiLog)
          /\ Len(sleeps) = Len(apiLog) - 1

\* a fatal error at attempt index 2, after two rate-limit failures
C2_Witness ==
    /\ pc = "except"
    /\ Len(apiLog) = 3
    /\ Last(apiLog).type = "APIStatusError"
    /\ err = Last(apiLog)
    /\ Len(sleeps) = 2

(***************************************************************************)
(* C3: the wait before retry number attempt+1 is 60 * 2^attempt: the       *)
(* first wait is the base 60, each further wait is twice the one before,   *)
(* the same attempt index always gives the same wait, and the waits never  *)
(* decrease with the attempt index.                                        *)
(***************************************************************************)
C3_BackoffDoubles ==
    /\ sleeps # <<>> => sleeps[1] = 60
    /\ \A i \in 1..(Len(sleeps) - 1) : sleeps[i + 1] = 2 * sleeps[i]
    /\ \A i, j \in 1..Len(sleeps) : i <= j => sleeps[i] <= sleeps[j]
    /\ Len(sleeps) <= 4

\* every wait the wrapper can make has been made
C3_Witness == sleeps = <<60, 120, 240, 480>>


(***************************************************************************)
(* C4 as claimed: the bounded retry count bounds the waiting of a whole    *)
(* run; no run accumulates more than 60 + 120 + 240 + 480 = 900.           *)
(***************************************************************************)
C4_RunWaitBounded == totalWait <= 900

(***************************************************************************)
(* C4 as amended: the bounded retry count bounds the waiting of each       *)
(* exchange.  Within one call of call_claude_with_retry the waits are a    *)
(* prefix of 60, 120, 240, 480, at most 900 in total; all four are made    *)
(* on persistent rate-limiting, just before the fatal failure.  A run      *)
(* waits at most 900 per exchange it makes.                                *)
(***************************************************************************)
C4_ExchangeWaitBounded ==
    /\ Len(sleeps) <= 4
    /\ sleeps = SubSeq(<<60, 120, 240, 480>>, 1, Len(sleeps))
    /\ SumSeq(sleeps) <= 900
    /\ (WrapperRaised /\ IsRateLimit(Last(apiLog))) =>
          sleeps = <<60, 120, 240, 480>> /\ SumSeq(sleeps) = 900
    /\ totalWait <= 900 * exchanges

\* two exchanges, each rate-limited to the end of its budget
C4_Witness ==
    /\ pc = "except"
    /\ exchanges = 2
    /\ IsRateLimit(err)
    /\ sleeps = <<60, 120, 240, 480>>
    /\ totalWait = 1800

(***************************************************************************)
(* C5: for N >= 0 tool-requesting responses followed by one final          *)
(* response the driver makes exactly N+1 exchanges, and the raw candidate  *)
(* document is the text segments of the final response, concatenated in    *)
(* their order, with no text of an earlier responder turn.                 *)
(***************************************************************************)
TextSegments(content) == SelectSeq(content, LAMBDA b : b.type = "text")

RECURSIVE Concat(_)
Concat(segments) ==
    IF segments = <<>> THEN <<>>
    ELSE Head(segments).text \o Concat(Tail(segments))

\* the tool-requesting responses taken so far: one responder turn each
ToolRequests == Cardinality({i \in DOMAIN messages : messages[i].role = "assistant"})

C5_ExchangesAndRawText ==
    analysis # None =>
        /\ response.stop_reason # "tool_use"
        /\ exchanges = ToolRequests + 1
        /\ analysis.raw_content = Concat(TextSegments(response.content))

\* two tool rounds, then a final response of two text segments
C5_Witness ==
    /\ analysis # None
    /\ ToolRequests = 2
    /\ exchanges = 3
    /\ analysis.raw_content = Preamble \o SpecText

(***************************************************************************)
(* C6 as claimed: a round cap limits the number of tool rounds, so a       *)
(* provider that requests a tool in every response cannot keep the driver  *)
(* looping.  The code holds no such cap: whatever cap is tried, the driver *)
(* runs one more round when asked.  Stated for the largest cap below the   *)
(* rounds the model explores.                                              *)
(***************************************************************************)
ToolRoundsDone == IF messages = <<>> THEN 0 ELSE (Len(messages) - 1) \div 2

C6_RoundCapLimitsToolRounds == ToolRoundsDone <= MaxRounds - 1

(***************************************************************************)
(* C7: publish is invoked only after the conversation driver has reached   *)
(* DONE and extraction has returned; when the conversation fails, in the   *)
(* first exchange or after tool rounds, publish is never invoked.          *)
(***************************************************************************)
C7_PublishOnlyAfterDone ==
    /\ pc \in {"start", "call", "returned"} => uploads = <<>>
    /\ uploads # <<>> =>
          /\ Len(uploads) = 1
          /\ analysis # None
          /\ response.stop_reason # "tool_use"
          /\ IsOk(Last(apiLog))
          /\ uploads[1].product_name = analysis.product_name
          /\ uploads[1].spec_content = analysis.spec_content
    /\ (apiLog # <<>> /\ ~IsOk(Last(apiLog))) => uploads = <<>> /\ analysis = None

\* the conversation fails in its second exchange, after one tool round
C7_Witness ==
    /\ pc = "exit_error"
    /\ WrapperRaised
    /\ ToolRoundsDone = 1
    /\ uploads = <<>>

(***************************************************************************)
(* C8 as claimed: when publish fails after a successful conversation,      *)
(* notify is invoked exactly once, with success = false and an error text  *)
(* that is non-empty and at most 500 characters; no success notification   *)
(* is sent and no locator is passed on.                                    *)
(***************************************************************************)
PublishFailed == uploads # <<>> /\ ~IsOk(Last(uploads).outcome)

C8_PublishFailureNotified ==
    (PublishFailed /\ pc \in {"reraise", "exit_error"}) =>
        /\ Len(notifications) = 1
        /\ ~notifications[1].payload.success
        /\ notifications[1].payload.error # <<>>
        /\ Len(notifications[1].payload.error) <= 500
        /\ notifications[1].payload.doc_url = <<>>
        /\ doc_url = None

(***************************************************************************)
(* C9: a failure of the notification call is never escalated.  On the      *)
(* failure path the error main re-raises is the original analysis or       *)
(* publish failure, also when notify itself failed; on the success path a  *)
(* failed notify raises nothing.                                           *)
(***************************************************************************)
OriginalFailure == IF WrapperRaised THEN Last(apiLog) ELSE Last(uploads).outcome

C9_NotifyFailureNotEscalated ==
    /\ pc = "exit_error" =>
          /\ raised = OriginalFailure
          /\ raised \notin NotifyErrors
    /\ pc = "reraise" => err = OriginalFailure
    /\ (notifications # <<>> /\ notifications[1].payload.success) =>
          /\ pc = "done"
          /\ err = None
          /\ raised = None

\* publish failed, then the failure notification failed too
C9_Witness ==
    /\ pc = "exit_error"
    /\ PublishFailed
    /\ Len(notifications) = 1
    /\ ~IsOk(notifications[1].post)
    /\ raised = Last(uploads).outcome

(***************************************************************************)
(* C10: the process exits without error only if analysis, publish and      *)
(* notify all completed; an exception during analysis or publish always    *)
(* ends in a non-zero exit with that exception re-raised, and the failure  *)
(* notification is attempted before the re-raise: never after it, never    *)
(* skipped.                                                                *)
(***************************************************************************)
ExceptionOccurred ==
    \/ apiLog # <<>> /\ ~IsOk(Last(apiLog)) /\ pc # "call"
    \/ PublishFailed

C10_ExitContract ==
    /\ pc = "done" =>
          /\ analysis # None
          /\ Len(uploads) = 1
          /\ IsOk(uploads[1].outcome)
          /\ doc_url = uploads[1].outcome.locator
          /\ Len(notifications) = 1
          /\ notifications[1].payload.success
          /\ raised = None
    /\ ExceptionOccurred => Failing
    /\ pc = "except" => notifications = <<>> /\ raised = None
    /\ pc \in {"reraise", "exit_error"} =>
          /\ Len(notifications) = 1
          /\ ~notifications[1].payload.success
    /\ pc = "exit_error" => raised # None /\ raised = err

\* the analysis failed, the failure was notified, the exception has left main
C10_Witness ==
    /\ pc = "exit_error"
    /\ WrapperRaised
    /\ raised = Last(apiLog)
    /\ Len(notifications) = 1
    /\ IsOk(notifications[1].post)

(***************************************************************************)
(* C11: extraction (clean_spec_content, then extract_product_info) never   *)
(* raises, whatever string it is given, the empty string and text without  *)
(* a heading included: it always returns a result.  For text that holds no *)
(* top-level heading and no labeled field the title is the sentinel        *)
(* "Unknown Product", the product URL is empty and the body is the whole   *)
(* input, unchanged.                                                       *)
(***************************************************************************)
\* the text the provider returned in its final response
FinalInput == response.content[1].text

TopHeadingAt(x, i) ==
    /\ i = 1 \/ x[i - 1] = "\n"
    /\ x[i] = "#"
    /\ i < Len(x)
    /\ x[i + 1] \in {" ", "\n"}

LabelAt(x, i) ==
    /\ i + 2 <= Len(x)
    /\ x[i] = "**P"
    /\ x[i + 1] = " "
    /\ x[i + 2] \in {"N", "L"}

PlainText(x) == \A i \in 1..Len(x) : ~TopHeadingAt(x, i) /\ ~LabelAt(x, i)

C11_ExtractionTotal ==
    /\ pc \in {"returned", "upload"}
    /\ err = None
    /\ raised = None
    /\ pc = "upload" =>
          /\ analysis.type = "analysis"
          /\ analysis.raw_content = FinalInput
          /\ PlainText(FinalInput) =>
                /\ analysis.product_name = <<"U", " ", "P">>
                /\ analysis.product_url = <<>>
                /\ analysis.spec_content = FinalInput

\* a text without heading or label, white space at both ends
C11_Witness ==
    /\ pc = "upload"
    /\ FinalInput = <<" ", "a", "\n">>
    /\ analysis.product_name = <<"U", " ", "P">>
    /\ analysis.product_url = <<>>
    /\ analysis.spec_content = <<" ", "a", "\n">>

(***************************************************************************)
(* C12 as claimed: title recovery applies its three patterns in priority   *)
(* order (marker heading, labeled name, first top-level heading) and the   *)
(* first pattern that matches wins: once a higher-priority pattern has     *)
(* matched, no lower-priority pattern changes the title, for every input   *)
(* and every captured name; the sentinel is returned only if none of the   *)
(* three matches.  The code takes a title equal to the sentinel text for   *)
(* "no match yet", so a captured name "Unknown Product" is overwritten by  *)
(* the next pattern that matches.                                          *)
(***************************************************************************)
C12_FirstMatchWins ==
    pc = "upload" =>
        LET x == analysis.spec_content
            title == analysis.product_name
            p1 == TitleSearch(x)
            p2 == NameSearch(x)
            p3 == H1Search(x)
        IN  /\ p1.found => title = Strip(p1.group)
            /\ (~p1.found /\ p2.found) => title = Strip(p2.group)
            /\ (~p1.found /\ ~p2.found /\ p3.found) =>
                  title = StripSuffix(Strip(p3.group))
            /\ (~p1.found /\ ~p2.found /\ ~p3.found) => title = <<"U", " ", "P">>

(***************************************************************************)
(* C13: in every state of the driver and at every request it sends, the    *)
(* transcript starts with exactly one requester turn holding the task      *)
(* prompt, requester and responder turns strictly alternate after it, the  *)
(* transcript of every request ends with a requester turn, and the         *)
(* transcript only grows by appends: no turn is removed, reordered or      *)
(* rewritten.                                                              *)
(***************************************************************************)
IsToolResultTurn(t) ==
    /\ t.role = "user"
    /\ \A k \in 1..Len(t.content) : t.content[k].type = "tool_result"

TranscriptShape ==
    pc # "start" =>
        /\ messages # <<>>
        /\ messages[1] = [role |-> "user", content |-> <<"PROMPT">>]
        /\ \A i \in 2..Len(messages) :
              IF i % 2 = 0 THEN messages[i].role = "assistant"
                           ELSE IsToolResultTurn(messages[i])
        /\ pc = "call" => messages[Len(messages)].role = "user"

TranscriptGrows ==
    /\ Len(messages') >= Len(messages)
    /\ SubSeq(messages', 1, Len(messages)) = messages

C13_TranscriptInvariant == []TranscriptShape /\ [][TranscriptGrows]_vars

\* the request of the third exchange, sent again after a rate-limit failure
C13_Witness ==
    /\ pc = "call"
    /\ attempt = 1
    /\ Len(messages) = 5
    /\ messages[5].role = "user"
    /\ messages[4].role = "assistant"

(***************************************************************************)
(* C14 as claimed: after every successful exchange, the final one          *)
(* included, the responder turn is appended to the transcript; in DONE     *)
(* after N tool rounds the transcript holds 2N+2 turns and ends with the   *)
(* final responder turn.                                                   *)
(***************************************************************************)
C14_FinalTurnAppended ==
    analysis # None =>
        /\ Len(messages) = 2 * (exchanges - 1) + 2
        /\ messages[Len(messages)].role = "assistant"
        /\ messages[Len(messages)].content = response.content

(***************************************************************************)
(* C14 as amended: the responder turn is appended after every successful   *)
(* exchange whose response asks for a tool, followed by the requester turn *)
(* of tool results; the final response is not appended.  When an exchange  *)
(* has returned, and in DONE, after N tool rounds the transcript holds     *)
(* 2N+1 turns and ends with a requester turn: the task prompt when N = 0,  *)
(* the last turn of tool results otherwise.                                *)
(***************************************************************************)
C14_ToolTurnsAppended ==
    /\ pc = "returned" => Len(messages) = 2 * (exchanges - 1) + 1
    /\ (pc = "call" /\ exchanges >= 2) =>
          /\ Len(messages) = 2 * (exchanges - 1) + 1
          /\ messages[Len(messages) - 1] =
                 [role |-> "assistant", content |-> response.content]
    /\ analysis # None =>
          /\ Len(messages) = 2 * (exchanges - 1) + 1
          /\ messages[Len(messages)].role = "user"
          /\ exchanges = 1 => messages = <<[role |-> "user", content |-> <<"PROMPT">>]>>

\* DONE after two tool rounds: five turns, the last one a requester turn
C14_Witness ==
    /\ pc = "upload"
    /\ analysis # None
    /\ exchanges = 3
    /\ Len(messages) = 5
    /\ messages[5].role = "user"

(***************************************************************************)
(* C15 as claimed: after a successful exchange the driver enters a tool    *)
(* round if and only if the responder turn holds at least one tool         *)
(* invocation, and goes to DONE otherwise: it never runs a tool round for  *)
(* a response without tool invocations and never finishes on a response    *)
(* that carries one.  The code decides on stop_reason alone, so a response *)
(* cut short by max_tokens ends the conversation whatever it carries.      *)
(***************************************************************************)
ToolInvocations(content) == SelectSeq(content, LAMBDA b : b.type = "tool_use")

C15_ToolRoundIffToolUse ==
    /\ \A i \in 1..Len(messages) :
          messages[i].role = "assistant" =>
              ToolInvocations(messages[i].content) # <<>>
    /\ analysis # None => ToolInvocations(response.content) = <<>>

(***************************************************************************)
(* C16: in each tool round the requester turn appended holds exactly one   *)
(* tool result for every tool invocation of the most recent responder      *)
(* turn, keyed by that invocation's id, in the same order, and nothing for *)
(* the text segments; the responder turn and the turn of its results are   *)
(* appended together, with no exchange between them.                       *)
(***************************************************************************)
Answers(uses, results) ==
    /\ Len(results) = Len(uses)
    /\ \A k \in 1..Len(uses) :
          /\ results[k].type = "tool_result"
          /\ results[k].tool_use_id = uses[k].id

C16_ToolResultsMatch ==
    /\ \A i \in 1..Len(messages) :
          messages[i].role = "assistant" =>
              /\ i < Len(messages)
              /\ messages[i + 1].role = "user"
              /\ Answers(ToolInvocations(messages[i].content),
                         messages[i + 1].content)
    /\ (pc = "call" /\ exchanges >= 2) =>
          /\ messages[Len(messages) - 1].role = "assistant"
          /\ messages[Len(messages) - 1].content = response.content
          /\ exchanges = ToolRequests + 1

\* a responder turn of two invocations around a text segment, answered t1, t2
C16_Witness ==
    /\ pc = "call"
    /\ Len(messages) = 3
    /\ messages[2].content = <<ToolUse("t1"), Text(<<"a", "a">>), ToolUse("t2")>>
    /\ Len(messages[3].content) = 2
    /\ messages[3].content[1].tool_use_id = "t1"
    /\ messages[3].content[2].tool_use_id = "t2"

(***************************************************************************)
(* C17 as claimed: clean_spec_content places the start of the body at the  *)
(* first top-level heading line that contains the marker phrase, also when *)
(* an earlier top-level heading without the marker exists; without such a  *)
(* line, at the first top-level heading of any kind; without any heading   *)
(* the body is the whole input.  The body is always a suffix of the input, *)
(* and clean_spec_content applied to its own result returns it unchanged.  *)
(* In the code the white space after "#" may run over line breaks, so a    *)
(* "#" line is taken for a marker heading when the marker stands on a line *)
(* after it.                                                               *)
(***************************************************************************)
\* a line "# ..." that holds the marker, in either case, on the line itself
MarkerHeadingAt(x, i) ==
    /\ i = 1 \/ x[i - 1] = "\n"
    /\ x[i] = "#"
    /\ i < Len(x)
    /\ x[i + 1] = " "
    /\ \E k \in (i + 2)..Len(x) :
          /\ x[k] \in {"S", "s"}
          /\ \A j \in i..k : x[j] # "\n"

C17_BodyBoundary ==
    pc = "upload" =>
        LET x == FinalInput
            body == analysis.spec_content
            marked == {i \in 1..Len(x) : MarkerHeadingAt(x, i)}
            headed == {i \in 1..Len(x) : TopHeadingAt(x, i)}
            first(S) == CHOOSE i \in S : \A j \in S : i <= j
        IN  /\ body = IF marked # {} THEN SubSeq(x, first(marked), Len(x))
                      ELSE IF headed # {} THEN SubSeq(x, first(headed), Len(x))
                      ELSE x
            /\ \E i \in 1..(Len(x) + 1) : body = SubSeq(x, i, Len(x))
            /\ clean_spec_content(body) = body

(***************************************************************************)
(* C18: the attempt index of the retry wrapper is local to one exchange.   *)
(* Every call of the wrapper starts at attempt 0, with the whole budget of *)
(* 5 provider calls and the base wait of 60, however many failures earlier *)
(* exchanges of the run absorbed; a run of N tool rounds therefore makes   *)
(* up to 5 * (N+1) provider calls.                                         *)
(***************************************************************************)
C18_BudgetPerExchange ==
    /\ pc = "call" =>
          /\ attempt = Len(apiLog)
          /\ attempt < 5
          /\ apiLog = <<>> => sleeps = <<>>
    /\ \A i \in 1..Len(sleeps) : sleeps[i] = <<60, 120, 240, 480>>[i]
    /\ Len(apiLog) <= 5
    /\ calls <= 5 * exchanges
    /\ pc \in {"call", "returned"} => calls >= exchanges - 1 + Len(apiLog)

\* two tool rounds, five provider calls in each of the three exchanges
C18_Witness ==
    /\ exchanges = 3
    /\ Len(apiLog) = 5
    /\ calls = 15
    /\ totalWait = 2700

(***************************************************************************)
(* C19: every run of main that reaches a terminal outcome has invoked      *)
(* notify exactly once: a success notification only after publish has      *)
(* returned a locator, a failure notification only when the analysis or    *)
(* the publish raised; never both, never neither.                          *)
(***************************************************************************)
Terminal == pc \in {"done", "exit_error"}

C19_NotifyExactlyOnce ==
    /\ Len(notifications) <= 1
    /\ Terminal => Len(notifications) = 1
    /\ \A i \in 1..Len(notifications) :
          IF notifications[i].payload.success
          THEN /\ pc = "done"
               /\ uploads # <<>>
               /\ uploads[Len(uploads)].outcome.type = "ok"
               /\ notifications[i].payload.doc_url =
                      uploads[Len(uploads)].outcome.locator
          ELSE /\ pc \in {"reraise", "exit_error"}
               /\ \/ apiLog[Len(apiLog)].type # "ok"
                  \/ uploads # <<>> /\ uploads[Len(uploads)].outcome.type # "ok"

\* the successful run: one notification, the success one, with the locator
C19_Witness ==
    /\ pc = "done"
    /\ Len(notifications) = 1
    /\ notifications[1].payload.success
    /\ notifications[1].payload.doc_url = <<"HTTP", "a">>
    /\ uploads[1].outcome.locator = <<"HTTP", "a">>

(***************************************************************************)
(* C20: with MAX_RETRIES = 5 the statement after the retry loop, raise     *)
(* Exception("Max retries exceeded"), is never reached: the loop is left   *)
(* by the return of a response, by a failure that is not a rate limit, or  *)
(* by the re-raise on the final attempt.  When the retries are exhausted   *)
(* the error that surfaces, up to main's caller, is the last rate-limit    *)
(* error itself.                                                           *)
(***************************************************************************)
C20_FallbackUnreachable ==
    /\ err.type # "Exception"
    /\ raised.type # "Exception"
    /\ \A i \in 1..Len(notifications) :
          Len(notifications[i].payload.error) # 20
    /\ (Len(apiLog) = 5 /\ apiLog[5].type = "RateLimitError") =>
          /\ pc \in {"except", "reraise", "exit_error"}
          /\ err = apiLog[5]
          /\ Len(sleeps) = 4
          /\ pc = "exit_error" => raised = apiLog[5]

\* the first exchange is rate-limited five times; the fifth error leaves main
C20_Witness ==
    /\ pc = "exit_error"
    /\ exchanges = 1
    /\ calls = 5
    /\ raised.type = "RateLimitError"
    /\ raised = apiLog[5]

====
